---- MODULE Spec2Model ----
(***************************************************************************)
(* A model of the interactive line editor of shrs_core                     *)
(* (crates/shrs_core/src/readline/line.rs): Line::read_line and the event  *)
(* loop Line::read_events with its handlers.  One loop iteration (read one *)
(* terminal event, run the handler chain on it) is one atomic step: the    *)
(* loop is single threaded and only blocks in read().                      *)
(*                                                                         *)
(* Text is a sequence of one-character strings.  The collaborators whose   *)
(* code is in other crates (CursorBuffer, DefaultMenu, the undo/redo log,  *)
(* the history log, the vi grammar, the completer, the suggester, the      *)
(* interpreter) are modelled from their documented interface; what they    *)
(* answer is an input of the step.                                         *)
(***************************************************************************)
EXTENDS Integers, Sequences, FiniteSets, TLC

\* ------------------------------------------------------------------ bounds
\* longest text in the buffer
MaxLen == 1
\* most continuation lines accumulated in one session
MaxLines == 1
\* most snapshots kept in the undo/redo log
MaxUndo == 1
\* most pending Normal-mode keys
MaxKeys == 1
\* most read_line calls
MaxSessions == 2
\* most entries of the history log when the shell starts
InitHist == 2
\* longest text in the buffer of a drawn state
MaxText == 3

\* ------------------------------------------------------------------- text
NL == "\n"
\* the characters the user types; in Normal mode "i" and "j" are commands
Chars == {"i"}
IsPrefix(p, t) == Len(p) <= Len(t) /\ SubSeq(t, 1, Len(p)) = p

\* ------------------------------------------------------------ terminal events
\* crossterm::event::Event, with KeyEvent { code, modifiers }
Key(code, ch, mods) == [code |-> code, ch |-> ch, mods |-> mods, kind |-> "Key", text |-> <<>>]
KeyChar(c) == Key("Char", c, "NONE")
Ctrl(c) == Key("Char", c, "CONTROL")
Alt(c) == Key("Char", c, "ALT")
Plain(code) == Key(code, "", "NONE")
Resize == [code |-> "", ch |-> "", mods |-> "", kind |-> "Resize", text |-> <<>>]
Paste(p) == [code |-> "", ch |-> "", mods |-> "", kind |-> "Paste", text |-> p]
NoEvent == [code |-> "", ch |-> "", mods |-> "", kind |-> "None", text |-> <<>>]

\* ------------------------------------------------------------------ LineMode
Insert == "Insert"
Normal == "Normal"

\* ---------------------------------------------------------------- HistoryInd
Prompt == [i |-> 0, tag |-> "Prompt"]
Line(n) == [i |-> n, tag |-> "Line"]

\* up without the clamp at the oldest entry
UpNoClamp(ind, limit) ==
    IF ind = Prompt
    THEN IF limit = 0 THEN Prompt ELSE Line(0)
    ELSE Line(ind.i + 1)

\* HistoryInd::up
up(ind, limit) ==
    IF ind = Prompt
    THEN IF limit = 0 THEN Prompt ELSE Line(0)
    ELSE Line(IF ind.i + 1 <= limit - 1 THEN ind.i + 1 ELSE limit - 1)

\* HistoryInd::down
down(ind) ==
    IF ind = Prompt
    THEN Prompt
    ELSE IF ind.i = 0 THEN Prompt ELSE Line(ind.i - 1)

\* ------------------------------------------------------------------- state
VARIABLES
    cb,              \* LineState.cb: [text, cursor]
    lines,           \* LineState.lines: completed continuation lines
    current_word,    \* LineState.current_word
    history_ind,     \* LineState.history_ind
    saved_line,      \* LineState.saved_line
    mode,            \* LineState.mode
    menu,            \* Line.menu: [active, items, cursor]
    buffer_history,  \* Line.buffer_history: [hist, index]
    normal_keys,     \* Line.normal_keys
    snippets,        \* Line.snippets: the registered snippets, [trigger, value, position]
    history,         \* Context.history, entry 1 is the most recent
    raw_mode,        \* the terminal is in raw mode
    bracketed_paste, \* the terminal has bracketed paste enabled
    pc,              \* "idle", "running", "returned", "failed", "panicked", "exited"
    result,          \* what read_events returned
    sessions,        \* read_line calls so far
    ending,          \* the event on which the loop was left
    tracing,         \* whether ran is recorded
    ran,             \* the handlers the last iteration ran, in order
    calls,           \* the history_up / history_down calls of the last iteration, in order
    draft,           \* [on, text]: the buffer text when the current run of Up/Down presses began
    cursor_style,    \* Context.state CursorStyle.style, "DefaultUserShape" until a mode switch sets it
    notified         \* the line_mode of the last LineModeSwitchCtx the hooks ran on, "None" before the first

vars == <<cb, lines, current_word, history_ind, saved_line, mode, menu,
          buffer_history, normal_keys, snippets, history, raw_mode, bracketed_paste,
          pc, result, sessions, ending, tracing, ran, calls, draft,
          cursor_style, notified>>

\* The state as one value, as the handlers get it (LineStateBundle and self);
\* ctl is the control outcome of the iteration so far:
\* "go", "return" (the handler returns early), "break" (leave the loop),
\* "exit" (process::exit), "fail" (an Err handed
\* on with `?`), "panic" (an unwrap of nothing)
Cur ==
    [cb |-> cb, lines |-> lines, current_word |-> current_word,
     history_ind |-> history_ind, saved_line |-> saved_line, mode |-> mode,
     menu |-> menu, buffer_history |-> buffer_history, normal_keys |-> normal_keys,
     snippets |-> snippets,
     history |-> history, raw_mode |-> raw_mode, bracketed_paste |-> bracketed_paste,
     ran |-> <<>>, calls |-> <<>>,
     cursor_style |-> cursor_style, notified |-> notified, ctl |-> "go"]

Ran(s, handler) == [s EXCEPT !.ran = Append(@, handler)]
Called(s, function) == [s EXCEPT !.calls = Append(@, function)]

\* ------------------------------------------------------------ CursorBuffer
EmptyBuffer == [text |-> <<>>, cursor |-> 0]

InsertAt(text, at, str) == SubSeq(text, 1, at) \o str \o SubSeq(text, at + 1, Len(text))

\* CursorBuffer::insert(Location::Cursor(), str): the cursor ends after str
cb_insert(s, str) ==
    [s EXCEPT !.cb = [text |-> InsertAt(s.cb.text, s.cb.cursor, str),
                      cursor |-> s.cb.cursor + Len(str)]]

\* CursorBuffer::clear
cb_clear(s) == [s EXCEPT !.cb = EmptyBuffer]

\* CursorBuffer::move_cursor(Location::Rel(d)): an Err outside the text
cb_move_rel(s, d) ==
    IF s.cb.cursor + d < 0 \/ s.cb.cursor + d > Len(s.cb.text)
    THEN [s EXCEPT !.ctl = "fail"]
    ELSE [s EXCEPT !.cb.cursor = @ + d]

\* CursorBuffer::delete(Location::Cursor(), Location::Rel(n)): an Err outside the text
cb_delete_forward(s, n) ==
    IF s.cb.cursor + n > Len(s.cb.text)
    THEN [s EXCEPT !.ctl = "fail"]
    ELSE [s EXCEPT !.cb.text = SubSeq(@, 1, s.cb.cursor)
                                 \o SubSeq(@, s.cb.cursor + n + 1, Len(@))]

\* CursorBuffer::delete(from, Location::Cursor()) for a from before the cursor
cb_delete_back_to(s, from) ==
    [s EXCEPT !.cb = [text |-> SubSeq(s.cb.text, 1, from)
                               \o SubSeq(s.cb.text, s.cb.cursor + 1, Len(s.cb.text)),
                      cursor |-> from]]

\* CursorBuffer::motion_to_loc(Motion::BackWord): the start of the word before the cursor
RECURSIVE SkipBack(_, _, _)
SkipBack(text, at, spaces) ==
    IF at = 0 THEN 0
    ELSE IF (text[at] = " ") = spaces THEN SkipBack(text, at - 1, spaces)
    ELSE at

BackWord(text, cursor) == SkipBack(text, SkipBack(text, cursor, TRUE), FALSE)

\* ------------------------------------------------------------------ Menu
EmptyMenu == [cursor |-> 0, active |-> FALSE, items |-> <<>>]

menu_activate(s) == [s EXCEPT !.menu.active = TRUE]
menu_disactivate(s) == [s EXCEPT !.menu.active = FALSE]
menu_set_items(s, items) == [s EXCEPT !.menu.items = items, !.menu.cursor = 0]
menu_next(s) ==
    [s EXCEPT !.menu.cursor = IF @ + 1 >= Len(s.menu.items) THEN 0 ELSE @ + 1]
menu_previous(s) ==
    [s EXCEPT !.menu.cursor = IF @ = 0
                              THEN IF Len(s.menu.items) = 0 THEN 0 ELSE Len(s.menu.items) - 1
                              ELSE @ - 1]
\* Menu::current_selection: the item under the cursor, if any
HasSelection(s) == s.menu.cursor < Len(s.menu.items)
current_selection(s) == s.menu.items[s.menu.cursor + 1]

\* ------------------------------------------------------------ BufferHistory
EmptyBufferHistory == [hist |-> <<>>, index |-> 0]

buffer_history_clear(s) == [s EXCEPT !.buffer_history = EmptyBufferHistory]
\* BufferHistory::add: a snapshot of the buffer after the current one, dropping the redo tail
buffer_history_add(s) ==
    LET kept == SubSeq(s.buffer_history.hist, 1, s.buffer_history.index)
    IN  [s EXCEPT !.buffer_history = [hist |-> Append(kept, s.cb), index |-> Len(kept) + 1]]
\* BufferHistory::prev / next: step to the neighbouring snapshot and restore it
buffer_history_prev(s) ==
    IF s.buffer_history.index <= 1 THEN s
    ELSE [s EXCEPT !.buffer_history.index = @ - 1,
                   !.cb = s.buffer_history.hist[s.buffer_history.index - 1]]
buffer_history_next(s) ==
    IF s.buffer_history.index >= Len(s.buffer_history.hist) THEN s
    ELSE [s EXCEPT !.buffer_history.index = @ + 1,
                   !.cb = s.buffer_history.hist[s.buffer_history.index + 1]]

\* -------------------------------------------------------------- History log
\* History::add: the new entry becomes entry 0, the most recent
history_add(h, item) == <<item>> \o h
\* History::get(i), i counted from 0 at the most recent entry
history_get(h, i) == h[i + 1]

\* ----------------------------------------------------- LineState, history browse
\* get_full_command without the continuation lines
BufferOnly(s) == s.cb.text

\* LineState::get_full_command
get_full_command(s) == s.lines \o s.cb.text

\* update_history forgetting to put the saved line back
UpdateHistoryNoDraft(s) ==
    IF s.history_ind = Prompt
    THEN cb_clear(s)
    ELSE IF s.history_ind.i < Len(s.history)
         THEN cb_insert(cb_clear(s), history_get(s.history, s.history_ind.i))
         ELSE [s EXCEPT !.ctl = "panic"]

\* Line::update_history
update_history(s) ==
    IF s.history_ind = Prompt
    THEN cb_insert(cb_clear(s), s.saved_line)
    ELSE IF s.history_ind.i < Len(s.history)
         THEN cb_insert(cb_clear(s), history_get(s.history, s.history_ind.i))
         ELSE [s EXCEPT !.ctl = "panic"]

\* history_up taking the limit one too large
HistoryUpOffByOne(s) ==
    LET saved == IF s.history_ind = Prompt
                 THEN [s EXCEPT !.saved_line = s.cb.text]
                 ELSE s
    IN  update_history([Called(saved, "history_up") EXCEPT
                            !.history_ind = up(@, Len(s.history) + 1)])

\* Line::history_up
history_up(s) ==
    LET saved == IF s.history_ind = Prompt
                 THEN [s EXCEPT !.saved_line = s.cb.text]
                 ELSE s
    IN  update_history([Called(saved, "history_up") EXCEPT
                            !.history_ind = up(@, Len(s.history))])

\* Line::history_down
history_down(s) ==
    update_history([Called(s, "history_down") EXCEPT !.history_ind = down(@)])

\* ---------------------------------------------------------- mode transitions
\* Line::to_normal_mode / Line::to_insert_mode
\* hooks.run::<LineModeSwitchCtx> as the call log records it: the line_mode
\* it carries and the mode field at the time of the call
ModeSwitchHook(line_mode, field) ==
    CASE line_mode = Normal /\ field = Normal -> "LineModeSwitchCtx Normal, mode is Normal"
      [] line_mode = Normal /\ field = Insert -> "LineModeSwitchCtx Normal, mode is Insert"
      [] line_mode = Insert /\ field = Insert -> "LineModeSwitchCtx Insert, mode is Insert"
      [] line_mode = Insert /\ field = Normal -> "LineModeSwitchCtx Insert, mode is Normal"
run_hook(s, line_mode) ==
    Called([s EXCEPT !.notified = line_mode], ModeSwitchHook(line_mode, s.mode))

\* to_insert_mode with the mode field set and no hook run
ToInsertModeSilent(s) == [s EXCEPT !.cursor_style = "BlinkingBar", !.mode = Insert]

to_normal_mode(s) ==
    run_hook([s EXCEPT !.cursor_style = "BlinkingBlock", !.mode = Normal], Normal)
to_insert_mode(s) ==
    run_hook([s EXCEPT !.cursor_style = "BlinkingBar", !.mode = Insert], Insert)

\* ------------------------------------------------------------- completions
Append_ == "Append"
Replace == "Replace"
\* prelude::Completion, accept() being its text
Completion(text, method) == [completion |-> text, replace_method |-> method]

\* the part of text after its last space
RECURSIVE LastWord(_)
LastWord(text) ==
    IF text = <<>> THEN <<>>
    ELSE IF text[Len(text)] = " " THEN <<>>
    ELSE Append(LastWord(SubSeq(text, 1, Len(text) - 1)), text[Len(text)])

\* Wide stands for a glyph of three bytes and two columns (such as U+4E16);
\* every other character is one byte and one column
Wide == "W"
CharBytes(c) == IF c = Wide THEN 3 ELSE 1
CharWidth(c) == IF c = Wide THEN 2 ELSE 1

\* str::len (bytes) and UnicodeWidthStr::width (columns) of a text
RECURSIVE ByteLen(_)
ByteLen(text) == IF text = <<>> THEN 0 ELSE CharBytes(Head(text)) + ByteLen(Tail(text))
RECURSIVE Width(_)
Width(text) == IF text = <<>> THEN 0 ELSE CharWidth(Head(text)) + Width(Tail(text))

\* Line::populate_completions, completions being the completer's answer
populate_completions(s, completions) ==
    menu_set_items([s EXCEPT !.current_word = LastWord(SubSeq(s.cb.text, 1, s.cb.cursor))],
                   completions)

\* Line::accept_completion
accept_completion(s, completion) ==
    IF completion.replace_method = Append_
    THEN cb_insert(s, completion.completion)
    ELSE LET moved == cb_move_rel(s, 0 - ByteLen(s.current_word))
             deleted == IF moved.ctl = "fail" THEN moved
                        ELSE cb_delete_forward(moved, Width(s.current_word))
         IN  IF deleted.ctl = "fail" THEN deleted
             ELSE cb_insert([deleted EXCEPT !.current_word = <<>>], completion.completion)

\* ----------------------------------------------------------------- snippets
Command == "Command"
Anywhere == "Anywhere"
\* a snippet table a shell may be configured with: trigger, expansion, position
SnippetTable ==
    { [trigger |-> <<"j">>, value |-> <<"j", "i">>, position |-> Command],
      [trigger |-> <<"i">>, value |-> <<"i", "i">>, position |-> Anywhere] }

\* Snippets::should_expand under ExpandSnippet::OnSpace
should_expand(ev) == ev = KeyChar(" ")

HasSnippet(s, word) == \E sn \in s.snippets : sn.trigger = word
\* Snippets::get
snippets_get(s, word) == CHOOSE sn \in s.snippets : sn.trigger = word

\* str::split(' '): the words between single spaces, empty words kept
RECURSIVE Split(_)
Split(text) ==
    IF \A k \in 1..Len(text) : text[k] # " " THEN <<text>>
    ELSE LET k == CHOOSE j \in 1..Len(text) :
                      text[j] = " " /\ \A m \in 1..(j - 1) : text[m] # " "
         IN  <<SubSeq(text, 1, k - 1)>> \o Split(SubSeq(text, k + 1, Len(text)))

\* [&str]::join(" ")
RECURSIVE Join(_)
Join(words) ==
    IF Len(words) = 0 THEN <<>>
    ELSE IF Len(words) = 1 THEN words[1]
    ELSE words[1] \o <<" ">> \o Join(Tail(words))

\* the char offset at which word i of words starts (line 473 to 489)
RECURSIVE StartIndex(_, _)
StartIndex(words, i) ==
    IF i = 1 THEN 0 ELSE StartIndex(words, i - 1) + ByteLen(words[i - 1]) + 1

\* the indices of the words whose range holds the cursor, both ends included
WordsAtCursor(words, cursor) ==
    { i \in 1..Len(words) :
        cursor >= StartIndex(words, i) /\ cursor <= StartIndex(words, i) + ByteLen(words[i]) }

\* expand without the check of the snippet's position
ExpandAnyPosition(s, ev) ==
    IF ~should_expand(ev) THEN [s |-> s, continue |-> TRUE]
    ELSE LET words == Split(s.cb.text)
             found == WordsAtCursor(words, s.cb.cursor)
         IN  IF found = {} THEN [s |-> s, continue |-> TRUE]
             ELSE LET c == CHOOSE i \in found : \A j \in found : j <= i
                  IN  IF ~HasSnippet(s, words[c]) THEN [s |-> s, continue |-> TRUE]
                      ELSE [s |-> cb_insert(cb_clear(s),
                                            Join([words EXCEPT
                                                    ![c] = snippets_get(s, words[c]).value])),
                            continue |-> FALSE]

\* Line::expand: [s, continue], continue being whether the event is still to be handled
expand(s, ev) ==
    IF ~should_expand(ev) THEN [s |-> s, continue |-> TRUE]
    ELSE LET words == Split(s.cb.text)
             found == WordsAtCursor(words, s.cb.cursor)
         IN  IF found = {} THEN [s |-> s, continue |-> TRUE]
             ELSE LET c == CHOOSE i \in found : \A j \in found : j <= i
                  IN  IF ~HasSnippet(s, words[c]) THEN [s |-> s, continue |-> TRUE]
                      ELSE LET expanded == snippets_get(s, words[c])
                           IN  IF expanded.position = Command /\ c # 1
                               THEN [s |-> s, continue |-> TRUE]
                               ELSE [s |-> cb_insert(cb_clear(s),
                                                     Join([words EXCEPT ![c] = expanded.value])),
                                     continue |-> FALSE]

\* --------------------------------------------------------------- vi grammar
\* shrs_vi::Action, with the Motion of a Move
ActInsert == [kind |-> "Insert", motion |-> ""]
ActMove(motion) == [kind |-> "Move", motion |-> motion]
ActUndo == [kind |-> "Undo", motion |-> ""]
ActRedo == [kind |-> "Redo", motion |-> ""]
ActEditor == [kind |-> "Editor", motion |-> ""]
ActDelete == [kind |-> "Delete", motion |-> "Right"]

\* the action a command key stands for
IsCommandKey(k) == k \in {"i", "j", "k", "h", "l", "u", "r", "v", "x"}
KeyAction(k) ==
    CASE k = "i" -> ActInsert
      [] k = "j" -> ActMove("Down")
      [] k = "k" -> ActMove("Up")
      [] k = "h" -> ActMove("Left")
      [] k = "l" -> ActMove("Right")
      [] k = "u" -> ActUndo
      [] k = "r" -> ActRedo
      [] k = "v" -> ActEditor
      [] k = "x" -> ActDelete

\* Parser::parse: an optional one-digit count, then a command key
Parse(keys) ==
    LET DigitValue == [d \in {"1", "2", "3"} |-> IF d = "1" THEN 1 ELSE IF d = "2" THEN 2 ELSE 3] IN
    IF Len(keys) = 1 /\ IsCommandKey(keys[1])
    THEN [ok |-> TRUE, repeat |-> 1, action |-> KeyAction(keys[1])]
    ELSE IF Len(keys) = 2 /\ keys[1] \in DOMAIN DigitValue /\ IsCommandKey(keys[2])
    THEN [ok |-> TRUE, repeat |-> DigitValue[keys[1]], action |-> KeyAction(keys[2])]
    ELSE [ok |-> FALSE, repeat |-> 0, action |-> ActInsert]

\* ViCursorBuffer::execute_vi: [s, mode], mode being the mode the action asks for
execute_vi(s, action) ==
    CASE action.kind = "Insert" -> [mode |-> Insert, s |-> s]
      [] action.kind = "Move" /\ action.motion = "Left" ->
            [mode |-> Normal,
             s |-> IF s.cb.cursor > 0 THEN [s EXCEPT !.cb.cursor = @ - 1] ELSE s]
      [] action.kind = "Move" /\ action.motion = "Right" ->
            [mode |-> Normal,
             s |-> IF s.cb.cursor < Len(s.cb.text) THEN [s EXCEPT !.cb.cursor = @ + 1] ELSE s]
      [] action.kind = "Delete" ->
            [mode |-> Normal,
             s |-> IF s.cb.cursor < Len(s.cb.text)
                   THEN [s EXCEPT !.cb.text = SubSeq(@, 1, s.cb.cursor)
                                                \o SubSeq(@, s.cb.cursor + 2, Len(@))]
                   ELSE s]
      [] OTHER -> [mode |-> Normal, s |-> s]

\* ------------------------------------------------------------------ handlers
\* What the collaborators answer during one iteration: needs is
\* Lang::needs_line_check, suggestion is Suggester::suggest, completions is
\* Completer::complete, editor is the EDITOR variable and what the editor
\* leaves in the file (its trailing newlines stripped)
NoSuggestion == [text |-> <<>>, some |-> FALSE]
Suggestion(text) == [text |-> text, some |-> TRUE]
NoEditor == [text |-> <<>>, set |-> FALSE]
Editor(text) == [text |-> text, set |-> TRUE]
Inputs(needs, suggestion, completions) ==
    [completions |-> completions, needs |-> needs, suggestion |-> suggestion,
     editor |-> NoEditor, vi_err |-> FALSE]
NoInputs == Inputs(FALSE, NoSuggestion, <<>>)
InputsEditor(editor) == [NoInputs EXCEPT !.editor = editor]

\* a Tab arm that leaves the menu open when there is nothing to complete
TabKeepsMenu(s, inp) ==
    LET populated == menu_activate(populate_completions(s, inp.completions))
        completion_len == Len(populated.menu.items)
    IN  IF completion_len = 1
        THEN LET accepted == accept_completion(populated, populated.menu.items[1])
             IN  IF accepted.ctl = "fail" THEN accepted
                 ELSE menu_disactivate(accepted)
        ELSE menu_activate(populated)

\* a Tab arm that accepts a single candidate and leaves the menu open
TabSingleStaysOpen(s, inp) ==
    LET populated == menu_activate(populate_completions(s, inp.completions))
        completion_len == Len(populated.menu.items)
    IN  IF completion_len = 0 THEN menu_disactivate(populated)
        ELSE IF completion_len = 1
        THEN accept_completion(populated, populated.menu.items[1])
        ELSE menu_activate(populated)

\* the Tab arm of Line::handle_insert_keys (line 523 to 583)
tab(s, inp) ==
    LET populated == menu_activate(populate_completions(s, inp.completions))
        completion_len == Len(populated.menu.items)
    IN  IF completion_len = 0 THEN menu_disactivate(populated)
        ELSE IF completion_len = 1
        THEN LET accepted == accept_completion(populated, populated.menu.items[1])
             IN  IF accepted.ctl = "fail" THEN accepted
                 ELSE menu_disactivate(accepted)
        ELSE menu_activate(populated)

\* Line::handle_insert_keys
handle_insert_keys(s0, ev, inp) ==
    LET ex == expand(Ran(s0, "insert"), ev)
        s == ex.s
    IN  IF ~ex.continue THEN s
        ELSE CASE ev = Plain("Tab") -> tab(s, inp)
               [] ev = Plain("Left") ->
                    IF s.cb.cursor > 0 THEN [s EXCEPT !.cb.cursor = @ - 1] ELSE s
               [] ev = Plain("Right") ->
                    IF s.cb.cursor < Len(s.cb.text) THEN [s EXCEPT !.cb.cursor = @ + 1] ELSE s
               [] ev = Plain("Down") -> history_down(s)
               [] ev = Plain("Up") -> history_up(s)
               [] ev.kind = "Key" /\ ev.code = "Esc" -> buffer_history_add(to_normal_mode(s))
               [] ev = Plain("Backspace") \/ ev = Ctrl("h") ->
                    IF s.cb.text # <<>> /\ s.cb.cursor # 0
                    THEN cb_delete_back_to(s, s.cb.cursor - 1)
                    ELSE s
               [] ev = Ctrl("w") ->
                    IF s.cb.text # <<>> /\ s.cb.cursor # 0
                    THEN cb_delete_back_to(s, BackWord(s.cb.text, s.cb.cursor))
                    ELSE s
               [] ev = Ctrl("a") -> [s EXCEPT !.cb.cursor = 0]
               [] ev = Ctrl("e") -> [s EXCEPT !.cb.cursor = Len(s.cb.text)]
               [] ev.kind = "Key" /\ ev.code = "Char"
                  /\ ev \notin {Ctrl("h"), Ctrl("w"), Ctrl("a"), Ctrl("e")} ->
                    cb_insert(s, <<ev.ch>>)
               [] OTHER -> s

\* str::trim_end_matches("\n"): the text without the newlines it ends with
RECURSIVE trim_end_matches(_)
trim_end_matches(text) ==
    IF text # <<>> /\ text[Len(text)] = NL
    THEN trim_end_matches(SubSeq(text, 1, Len(text) - 1))
    ELSE text

\* `if let Ok(mode) = cb.execute_vi(action)` (line 699): an Err is dropped,
\* the mode is not looked at and the pass goes on
vi_executed(s, action, inp) ==
    IF inp.vi_err THEN [mode |-> s.mode, s |-> s] ELSE execute_vi(s, action)

\* the default arm of the match on the action with no snapshot taken
SnapshotNone(s) == s

\* the default arm of the match on the action (line 758 to 760)
add_snapshot(s) == buffer_history_add(s)

\* the pass with the two history directions exchanged
NormalActionExchanged(s, action, inp) ==
    LET done == vi_executed(s, action, inp)
        switched == IF done.mode = done.s.mode THEN done.s
                    ELSE IF done.mode = Insert THEN to_insert_mode(done.s)
                    ELSE to_normal_mode(done.s)
    IN  CASE action.kind = "Undo" -> Called(buffer_history_prev(switched), "prev")
          [] action.kind = "Redo" -> Called(buffer_history_next(switched), "next")
          [] action.kind = "Move" ->
                IF action.motion = "Up" THEN history_down(switched)
                ELSE IF action.motion = "Down" THEN history_up(switched)
                ELSE switched
          [] action.kind = "Editor" ->
                IF ~inp.editor.set THEN [switched EXCEPT !.ctl = "return"]
                ELSE cb_insert(cb_clear(switched), trim_end_matches(inp.editor.text))
          [] OTHER -> add_snapshot(switched)

\* one pass of the repeat loop of Line::handle_normal_keys (line 696 to 762)
NormalAction(s, action, inp) ==
    LET done == vi_executed(s, action, inp)
        switched == IF done.mode = done.s.mode THEN done.s
                    ELSE IF done.mode = Insert THEN to_insert_mode(done.s)
                    ELSE to_normal_mode(done.s)
    IN  CASE action.kind = "Undo" -> Called(buffer_history_prev(switched), "prev")
          [] action.kind = "Redo" -> Called(buffer_history_next(switched), "next")
          [] action.kind = "Move" ->
                IF action.motion = "Up" THEN history_up(switched)
                ELSE IF action.motion = "Down" THEN history_down(switched)
                ELSE switched
          [] action.kind = "Editor" ->
                \* without EDITOR the handler returns at once: ctl "return"
                IF ~inp.editor.set THEN [switched EXCEPT !.ctl = "return"]
                ELSE cb_insert(cb_clear(switched), trim_end_matches(inp.editor.text))
          [] OTHER -> add_snapshot(switched)

\* the action executed once whatever the count
RepeatOnce(s, action, n, inp) ==
    IF n = 0 \/ s.ctl # "go" THEN s ELSE NormalAction(s, action, inp)

RECURSIVE RepeatAction(_, _, _, _)
RepeatAction(s, action, n, inp) ==
    IF n = 0 \/ s.ctl # "go" THEN s
    ELSE RepeatAction(NormalAction(s, action, inp), action, n - 1, inp)

\* Line::handle_normal_keys
handle_normal_keys(s0, ev, inp) ==
    LET s == Ran(s0, "normal")
    IN  CASE ev.kind = "Key" /\ ev.code = "Esc" -> [s EXCEPT !.normal_keys = <<>>]
          [] ev.kind = "Key" /\ ev.code = "Char" ->
                LET pushed == [s EXCEPT !.normal_keys = Append(@, ev.ch)]
                    cmd == Parse(pushed.normal_keys)
                IN  IF ~cmd.ok THEN pushed
                    ELSE LET acted == RepeatAction(pushed, cmd.action, cmd.repeat, inp)
                         IN  IF acted.ctl = "return" THEN [acted EXCEPT !.ctl = "go"]
                             ELSE IF acted.ctl # "go" THEN acted
                             ELSE [acted EXCEPT !.normal_keys = <<>>]
          [] OTHER -> s

\* the dispatch on LineState.mode (line 300 to 307, line 362 to 369)
handle_mode_keys(s, ev, inp) ==
    IF s.mode = Insert THEN handle_insert_keys(s, ev, inp)
    ELSE handle_normal_keys(s, ev, inp)

\* an Esc arm of the menu handler that also leaves Insert mode
MenuEscSwitches(s) == to_normal_mode(menu_disactivate(s))

\* the Esc arm of Line::handle_menu_keys (line 329 to 335)
menu_esc(s) == menu_disactivate(s)

\* Line::handle_menu_keys
handle_menu_keys(s0, ev, inp) ==
    LET s == Ran(s0, "menu")
    IN  CASE ev = Plain("Enter") ->
                \* Menu::accept disactivates the menu and hands out the selection
                IF HasSelection(s)
                THEN accept_completion(menu_disactivate(s), current_selection(s))
                ELSE menu_disactivate(s)
          [] ev = Plain("Esc") -> menu_esc(s)
          [] ev = Key("Tab", "", "SHIFT") \/ ev = Plain("Up") -> menu_previous(s)
          [] ev = Plain("Tab") \/ ev = Plain("Down") -> menu_next(s)
          [] OTHER -> handle_mode_keys(menu_disactivate(s), ev, inp)

\* Ctrl-C leaving the continuation lines in place
CtrlCKeepsLines(s) == [buffer_history_clear(cb_clear(s)) EXCEPT !.ctl = "break"]

\* the Ctrl-C arm of Line::handle_standard_keys
ctrl_c(s) == [buffer_history_clear(cb_clear(s)) EXCEPT !.lines = <<>>, !.ctl = "break"]

\* the Enter / Ctrl-J arm of Line::handle_standard_keys
enter(s, needs) ==
    IF s.menu.active THEN s
    ELSE IF needs
    THEN cb_clear([buffer_history_clear(s) EXCEPT !.lines = @ \o s.cb.text \o <<NL>>])
    ELSE [buffer_history_clear(s) EXCEPT !.ctl = "break"]

\* Ctrl-D treated as Enter whatever the buffer holds
CtrlDAlwaysReturns(s) == [buffer_history_clear(s) EXCEPT !.ctl = "break"]

\* the Ctrl-D arm of Line::handle_standard_keys
ctrl_d(s) ==
    IF s.cb.text = <<>>
    THEN [s EXCEPT !.raw_mode = FALSE, !.ctl = "exit"]
    ELSE [buffer_history_clear(s) EXCEPT !.ctl = "break"]

\* Line::handle_standard_keys; ctl "break" is its Ok(true)
handle_standard_keys(s0, ev, inp) ==
    LET s == Ran(s0, "standard")
    IN  CASE ev.kind = "Resize" -> s
          [] ev.kind = "Paste" -> cb_insert(s, ev.text)
          [] ev = Ctrl("c") -> ctrl_c(s)
          [] ev = Plain("Right") ->
                IF inp.suggestion.some
                THEN cb_insert(cb_clear(s), inp.suggestion.text)
                ELSE s
          [] ev = Plain("Enter") \/ ev = Ctrl("j") -> enter(s, inp.needs)
          [] ev = Ctrl("d") -> ctrl_d(s)
          [] OTHER -> s

\* the keys of the shell's global key-binding table (C-l, C-p, C-n)
Bindings == {Ctrl("l"), Ctrl("p"), Ctrl("n")}

\* Keybinding::handle_key_event: whether a binding handled the key
handle_key_event(s, ev) == ev \in Bindings

\* an iteration that goes on to the menu or mode handler after a break
IterationNoBreak(s, ev, inp) ==
    IF ev.kind = "Key" /\ handle_key_event(s, ev)
    THEN [Ran(s, "keybinding") EXCEPT !.ctl = "break"]
    ELSE LET bound == IF ev.kind = "Key" THEN Ran(s, "keybinding") ELSE s
             standard == handle_standard_keys(bound, ev, inp)
         IN  IF standard.ctl \notin {"go", "break"} THEN standard
             ELSE IF standard.menu.active THEN handle_menu_keys(standard, ev, inp)
             ELSE handle_mode_keys(standard, ev, inp)

\* one iteration of the loop of Line::read_events, from read() on (line 283 to 308)
Iteration(s, ev, inp) ==
    IF ev.kind = "Key" /\ handle_key_event(s, ev)
    THEN [Ran(s, "keybinding") EXCEPT !.ctl = "break"]
    ELSE LET bound == IF ev.kind = "Key" THEN Ran(s, "keybinding") ELSE s
             standard == handle_standard_keys(bound, ev, inp)
         IN  IF standard.ctl # "go" THEN standard
             ELSE IF standard.menu.active THEN handle_menu_keys(standard, ev, inp)
             ELSE handle_mode_keys(standard, ev, inp)

\* ------------------------------------------------------------------ the loop
\* the guard CleanUp of read_events being dropped (line 219 to 226)
CleanUp(s) == [s EXCEPT !.raw_mode = FALSE, !.bracketed_paste = FALSE]

\* the end of read_events once the loop is left (line 311 to 315)
Finish(s) ==
    LET res == get_full_command(s)
    IN  [s EXCEPT !.history = IF res # <<>> THEN history_add(@, res) ELSE @]

\* the bounds of the model
WithinBounds(s) ==
    /\ Len(s.cb.text) <= MaxLen
    /\ Cardinality({k \in 1..Len(s.lines) : s.lines[k] = NL}) <= MaxLines
    /\ Len(s.buffer_history.hist) <= MaxUndo
    /\ Len(s.normal_keys) <= MaxKeys

\* the LineState is dropped when read_line is left: of it the model keeps
\* the buffer and the continuation lines, which the returned text is made of
Dropped(s) ==
    [s EXCEPT !.current_word = <<>>, !.history_ind = Prompt, !.saved_line = <<>>,
              !.mode = Insert]

\* the state becomes s, the loop going on or ending as s.ctl says
Commit(s) ==
    LET t == CASE s.ctl = "break" -> Dropped(CleanUp(Finish(s)))
               [] s.ctl \in {"fail", "panic"} -> Dropped(CleanUp(s))
               [] s.ctl = "exit" -> Dropped(s)
               [] OTHER -> s
    IN  /\ cb' = t.cb
        /\ lines' = t.lines
        /\ current_word' = t.current_word
        /\ history_ind' = t.history_ind
        /\ saved_line' = t.saved_line
        /\ mode' = t.mode
        /\ menu' = t.menu
        /\ buffer_history' = t.buffer_history
        /\ normal_keys' = t.normal_keys
        /\ snippets' = t.snippets
        /\ history' = t.history
        /\ raw_mode' = t.raw_mode
        /\ bracketed_paste' = t.bracketed_paste
        /\ cursor_style' = t.cursor_style
        /\ notified' = t.notified
        /\ ran' = IF tracing THEN t.ran ELSE <<>>
        /\ calls' = IF tracing THEN t.calls ELSE <<>>
        /\ tracing' = tracing
        /\ pc' = CASE s.ctl = "break" -> "returned"
                   [] s.ctl = "fail" -> "failed"
                   [] s.ctl = "panic" -> "panicked"
                   [] s.ctl = "exit" -> "exited"
                   [] OTHER -> "running"
        /\ result' = IF s.ctl = "break" THEN get_full_command(t) ELSE result

\* an Up or Down press that browses the history: Insert mode, menu inactive
IsBrowse(ev) == ev \in {Plain("Up"), Plain("Down")} /\ mode = Insert /\ ~menu.active
NoDraft == [text |-> <<>>, on |-> FALSE]

\* read() returns ev and the iteration handles it
Step(ev, inp) ==
    /\ pc = "running"
    /\ LET s == Iteration(Cur, ev, inp)
       IN  WithinBounds(s) /\ Commit(s)
    /\ ending' = IF pc' = "running" THEN NoEvent ELSE ev
    /\ sessions' = sessions
    /\ draft' = IF pc' # "running" THEN NoDraft
                ELSE IF IsBrowse(ev) /\ draft.on THEN draft
                ELSE IF ev = Plain("Up") /\ IsBrowse(ev) /\ history_ind = Prompt
                THEN [text |-> cb.text, on |-> TRUE]
                ELSE NoDraft

\* what the prompt content queue may hold when read_line is called
NoQueued == [some |-> FALSE, content |-> <<>>, auto_run |-> FALSE]
Queued(content, auto_run) == [some |-> TRUE, content |-> content, auto_run |-> auto_run]
QueueOptions == {NoQueued, Queued(<<"i">>, FALSE), Queued(<<"i">>, TRUE), Queued(<<>>, TRUE)}

\* the queue popped with the undo/redo log left as it is under auto_run
PopQueueKeepsUndo(fresh, queued) ==
    LET filled == IF queued.some THEN cb_insert(fresh, queued.content) ELSE fresh
        rendered == Ran(filled, "render")
    IN  IF queued.auto_run THEN [rendered EXCEPT !.ctl = "break"] ELSE rendered

\* read_events from the pop of prompt_content_queue to the first read(): the
\* queued content inserted, the first render, and with auto_run the undo/redo
\* log cleared and the loop left (line 231 to 281)
pop_queue(fresh, queued) ==
    LET filled == IF queued.some THEN cb_insert(fresh, queued.content) ELSE fresh
        rendered == Ran(filled, "render")
    IN  IF queued.auto_run
        THEN [buffer_history_clear(rendered) EXCEPT !.ctl = "break"]
        ELSE rendered

\* Line::read_line up to the first read(): a fresh LineState, the terminal
\* set up, the queued content inserted, and with auto_run the loop left at once
read_line(queued, again) ==
    /\ pc = "idle" \/ (pc = "returned" /\ again)
    /\ sessions < MaxSessions
    /\ LET fresh == [Cur EXCEPT !.cb = EmptyBuffer, !.current_word = <<>>,
                                !.history_ind = Prompt, !.saved_line = <<>>,
                                !.mode = Insert, !.lines = <<>>,
                                !.raw_mode = TRUE, !.bracketed_paste = TRUE]
           s == pop_queue(fresh, queued)
       IN  WithinBounds(s) /\ Commit(s)
    /\ ending' = NoEvent
    /\ sessions' = sessions + 1
    /\ draft' = NoDraft

\* read() or the painter returns an Err, which read_events hands on with `?`
IoError ==
    /\ pc = "running"
    /\ Commit([Cur EXCEPT !.ctl = "fail"])
    /\ ending' = NoEvent
    /\ UNCHANGED <<sessions>>
    /\ draft' = NoDraft

\* ------------------------------------------------------------------- actions
CompletionA == Completion(<<"i">>, Append_)
CompletionR == Completion(<<"i">>, Replace)
\* what the completer may answer
CompletionLists == {<<>>, <<CompletionR>>, <<CompletionA, CompletionR>>}

\* what the suggester may answer: nothing, or a history entry the command starts
Suggestions ==
    {NoSuggestion} \cup
    { Suggestion(history[k]) : k \in { j \in 1..Len(history) :
                                         IsPrefix(lines \o cb.text, history[j]) } }

StartSession == \E q \in QueueOptions : read_line(q, FALSE)
NextSession == \E q \in QueueOptions : read_line(q, TRUE)
EvResize == Step(Resize, NoInputs)
EvPaste == Step(Paste(<<"i">>), NoInputs)
KeyBound == \E ev \in Bindings : Step(ev, NoInputs)
KeyCtrlC == Step(Ctrl("c"), NoInputs)
KeyCtrlD == Step(Ctrl("d"), NoInputs)
KeyEnter == \E needs \in BOOLEAN : Step(Plain("Enter"), Inputs(needs, NoSuggestion, <<>>))
KeyCtrlJ == \E needs \in BOOLEAN : Step(Ctrl("j"), Inputs(needs, NoSuggestion, <<>>))
KeyRight == \E sug \in Suggestions : Step(Plain("Right"), Inputs(FALSE, sug, <<>>))
KeyLeft == Step(Plain("Left"), NoInputs)
KeyUp == Step(Plain("Up"), NoInputs)
KeyDown == Step(Plain("Down"), NoInputs)
KeyTab == \E comps \in CompletionLists : Step(Plain("Tab"), Inputs(FALSE, NoSuggestion, comps))
KeyShiftTab == Step(Key("Tab", "", "SHIFT"), NoInputs)
KeyEsc == Step(Plain("Esc"), NoInputs)
KeyBackspace == \E ev \in {Plain("Backspace"), Ctrl("h")} : Step(ev, NoInputs)
KeyCtrlW == Step(Ctrl("w"), NoInputs)
KeyCtrlA == Step(Ctrl("a"), NoInputs)
KeyCtrlE == Step(Ctrl("e"), NoInputs)
KeyChar_ == \E c \in Chars : Step(KeyChar(c), NoInputs)

HistoryPool(n) == [k \in 1..n |-> IF k % 2 = 1 THEN <<"i">> ELSE <<"j">>]

\* the state once the Line is built and before read_line is called
Built ==
    /\ cb = EmptyBuffer
    /\ lines = <<>>
    /\ current_word = <<>>
    /\ history_ind = Prompt
    /\ saved_line = <<>>
    /\ mode = Insert
    /\ menu = EmptyMenu
    /\ buffer_history = EmptyBufferHistory
    /\ normal_keys = <<>>
    /\ snippets = SnippetTable
    /\ history \in {HistoryPool(n) : n \in 0..InitHist}
    /\ raw_mode = FALSE
    /\ bracketed_paste = FALSE
    /\ pc = "idle"
    /\ result = <<>>
    /\ sessions = 0
    /\ ending = NoEvent
    /\ ran = <<>>
    /\ calls = <<>>
    /\ draft = NoDraft
    /\ cursor_style = "DefaultUserShape"
    /\ notified = "None"

Init == Built /\ tracing = FALSE
\* the same with the handlers of each iteration recorded in ran
InitTracing == Built /\ tracing = TRUE

Next ==
    \/ StartSession
    \/ IoError
    \/ EvResize
    \/ EvPaste
    \/ KeyBound
    \/ KeyCtrlC
    \/ KeyCtrlD
    \/ KeyEnter
    \/ KeyCtrlJ
    \/ KeyRight
    \/ KeyLeft
    \/ KeyUp
    \/ KeyDown
    \/ KeyTab
    \/ KeyShiftTab
    \/ KeyEsc
    \/ KeyBackspace
    \/ KeyChar_

Spec == Init /\ [][Next]_vars
SpecTracing == InitTracing /\ [][Next]_vars


\* ------------------------------------------------- one event from any state
\* The loop in any state a session can be in when read() returns, with texts
\* of up to MaxText characters over DrawnChars, and one iteration from it.
DrawnChars == {"i", "j", " ", Wide}
Buffers ==
    LET Texts == UNION {[1..k -> DrawnChars] : k \in 0..MaxText}
    IN  {b \in [text : Texts, cursor : 0..MaxText] : b.cursor <= Len(b.text)}

\* the menu as Tab leaves it open, on the first or the second of two completions
OpenMenus ==
    {[cursor |-> k, active |-> TRUE, items |-> <<CompletionA, CompletionR>>] : k \in {0, 1}}

\* read() returns ev and the iteration handles it, from a drawn state
Once(ev, inp) ==
    /\ pc = "drawn"
    /\ Commit(Iteration(Cur, ev, inp))
    /\ ending' = ev
    /\ sessions' = sessions
    /\ draft' = NoDraft

\* a session in Insert mode, the menu closed or open
DrawnInsert ==
    /\ mode = Insert
    /\ cb \in Buffers
    /\ lines \in {<<>>, <<"i", NL>>}
    /\ menu \in {EmptyMenu} \cup OpenMenus
    /\ current_word = IF menu.active THEN LastWord(SubSeq(cb.text, 1, cb.cursor)) ELSE <<>>
    /\ history \in {HistoryPool(n) : n \in 0..1}
    /\ history_ind = Prompt
    /\ normal_keys = <<>>
    /\ buffer_history = EmptyBufferHistory
    /\ cursor_style = "DefaultUserShape"
    /\ notified = "None"

\* a session in Normal mode, with or without a pending count and anywhere in
\* the history
DrawnNormal ==
    /\ mode = Normal
    /\ cb \in Buffers
    /\ lines = <<>>
    /\ menu = EmptyMenu
    /\ current_word = <<>>
    /\ history \in {HistoryPool(n) : n \in 0..(InitHist + 1)}
    /\ history_ind \in {Prompt} \cup {Line(i) : i \in 0..(Len(history) - 1)}
    /\ normal_keys \in {<<>>, <<"2">>}
    /\ buffer_history = [hist |-> <<cb>>, index |-> 1]
    /\ cursor_style = "BlinkingBlock"
    /\ notified = Normal

\* what is the same in every drawn state: the terminal set up, nothing returned
DrawnRest ==
    /\ pc = "drawn"
    /\ saved_line = <<>>
    /\ raw_mode = TRUE
    /\ bracketed_paste = TRUE
    /\ result = <<>>
    /\ sessions = 1
    /\ ending = NoEvent
    /\ tracing = TRUE
    /\ ran = <<>>
    /\ calls = <<>>
    /\ draft = NoDraft

Drawn ==
    /\ DrawnInsert \/ DrawnNormal
    /\ snippets = SnippetTable
    /\ DrawnRest

\* what the completer may answer to a Tab from a drawn state
OnceCompletionLists ==
    {<<>>, <<CompletionA>>, <<CompletionR>>, <<Completion(<<"i", "j">>, Replace)>>, <<CompletionA, CompletionR>>}
\* EDITOR unset, or the text the editor leaves
Editors ==
    {NoEditor, Editor(<<>>), Editor(<<"i">>), Editor(<<"i", NL>>), Editor(<<"i", NL, NL>>)}
\* the characters typed in a drawn state: text, counts and Normal-mode commands
OnceChars == DrawnChars \cup {"2", "k", "h", "l", "u", "r", "v", "x"}

OnceResize == Once(Resize, NoInputs)
OncePaste == Once(Paste(<<"i">>), NoInputs)
OnceBound == \E ev \in Bindings : Once(ev, NoInputs)
OnceCtrlC == Once(Ctrl("c"), NoInputs)
OnceCtrlD == Once(Ctrl("d"), NoInputs)
OnceEnter == \E needs \in BOOLEAN : Once(Plain("Enter"), Inputs(needs, NoSuggestion, <<>>))
OnceCtrlJ == \E needs \in BOOLEAN : Once(Ctrl("j"), Inputs(needs, NoSuggestion, <<>>))
OnceRight == \E sug \in Suggestions : Once(Plain("Right"), Inputs(FALSE, sug, <<>>))
OnceLeft == Once(Plain("Left"), NoInputs)
OnceUp == Once(Plain("Up"), NoInputs)
OnceDown == Once(Plain("Down"), NoInputs)
OnceTab ==
    \E comps \in OnceCompletionLists : Once(Plain("Tab"), Inputs(FALSE, NoSuggestion, comps))
OnceShiftTab == Once(Key("Tab", "", "SHIFT"), NoInputs)
OnceEsc == Once(Plain("Esc"), NoInputs)
OnceBackspace == \E ev \in {Plain("Backspace"), Ctrl("h")} : Once(ev, NoInputs)
OnceCtrlW == Once(Ctrl("w"), NoInputs)
OnceCtrlA == Once(Ctrl("a"), NoInputs)
OnceCtrlE == Once(Ctrl("e"), NoInputs)
OnceChar == \E c \in OnceChars, editor \in Editors : Once(KeyChar(c), InputsEditor(editor))

\* keys with a modifier that no arm names: Alt-i, Ctrl-b, Alt-Esc
OnceModified == \E ev \in {Alt("i"), Ctrl("b"), Key("Esc", "", "ALT")} : Once(ev, NoInputs)

\* a command key on which the buffer answers execute_vi with an Err
OnceViErr == \E c \in OnceChars : mode = Normal /\ Once(KeyChar(c), [NoInputs EXCEPT !.vi_err = TRUE])

NextOnce ==
    \/ OnceResize
    \/ OncePaste
    \/ OnceBound
    \/ OnceCtrlC
    \/ OnceCtrlD
    \/ OnceEnter
    \/ OnceCtrlJ
    \/ OnceRight
    \/ OnceLeft
    \/ OnceUp
    \/ OnceDown
    \/ OnceTab
    \/ OnceShiftTab
    \/ OnceEsc
    \/ OnceBackspace
    \/ OnceCtrlW
    \/ OnceCtrlA
    \/ OnceCtrlE
    \/ OnceChar
    \/ OnceViErr
    \/ OnceModified

SpecOnce == Drawn /\ [][NextOnce]_vars

\* ------------------------------------------------- snippets, any table
\* a table in which an expansion is itself a trigger
SnippetChain ==
    { [trigger |-> <<"i">>, value |-> <<"j">>, position |-> Anywhere],
      [trigger |-> <<"j">>, value |-> <<"i", "i">>, position |-> Command] }
SnippetTables == {{}, SnippetTable, SnippetChain}

\* a session in Insert mode with the menu closed, under any of the tables
DrawnExpand ==
    /\ mode = Insert
    /\ cb \in Buffers
    /\ lines = <<>>
    /\ menu = EmptyMenu
    /\ current_word = <<>>
    /\ history = <<>>
    /\ history_ind = Prompt
    /\ normal_keys = <<>>
    /\ buffer_history = EmptyBufferHistory
    /\ cursor_style = "DefaultUserShape"
    /\ notified = "None"
    /\ snippets \in SnippetTables
    /\ DrawnRest

\* the key ExpandSnippet::OnSpace expands on, and keys it does not expand on
ExpandTrigger == Once(KeyChar(" "), NoInputs)
ExpandOther == \E c \in {"i", "j"} : Once(KeyChar(c), NoInputs)

NextExpand == ExpandTrigger \/ ExpandOther

SpecExpand == DrawnExpand /\ [][NextExpand]_vars

\* ------------------------------------------------- between two sessions
\* a session ended by a key of the key-binding table has returned: the Line
\* keeps its menu, pending keys and undo/redo log as that session left them,
\* the Context its cursor style, the hooks the last mode they were told of,
\* and the text returned is the newest history entry
Returned ==
    /\ pc = "returned"
    /\ cb \in {EmptyBuffer, [text |-> <<"i">>, cursor |-> 1]}
    /\ lines \in {<<>>, <<"i", NL>>}
    /\ result = lines \o cb.text
    /\ \E n \in 0..InitHist :
            history = IF result # <<>> THEN history_add(HistoryPool(n), result)
                      ELSE HistoryPool(n)
    /\ current_word = <<>>
    /\ history_ind = Prompt
    /\ saved_line = <<>>
    /\ mode = Insert
    /\ menu \in {EmptyMenu} \cup OpenMenus
    /\ normal_keys \in {<<>>, <<"2">>}
    /\ buffer_history \in {EmptyBufferHistory, [hist |-> <<EmptyBuffer>>, index |-> 1],
                           [hist |-> <<[text |-> <<"i">>, cursor |-> 1]>>, index |-> 1]}
    /\ snippets = SnippetTable
    /\ raw_mode = FALSE
    /\ bracketed_paste = FALSE
    /\ sessions = 0
    /\ ending \in Bindings
    /\ tracing = TRUE
    /\ ran = <<"keybinding">>
    /\ calls = <<>>
    /\ draft = NoDraft
    /\ notified \in {"None", Insert, Normal}
    /\ notified = "None" => (normal_keys = <<>> /\ buffer_history = EmptyBufferHistory)
    /\ cursor_style = CASE notified = Normal -> "BlinkingBlock"
                         [] notified = Insert -> "BlinkingBar"
                         [] OTHER -> "DefaultUserShape"

SpecQueue == Returned /\ [][NextSession]_vars

\* ------------------------------------------------------------------ claims
Stopped == pc \in {"returned", "failed", "panicked", "exited"}
Oldest == Line(Len(history) - 1)

\* C1: with a history of L >= 1 entries, every Up press that browses the
\* history leaves the index at a Line(i) with i <= L-1, and an Up pressed at
\* Line(L-1) leaves it at Line(L-1).
C1_UpClamped ==
    [][(KeyUp /\ IsBrowse(Plain("Up")) /\ Len(history) >= 1) =>
            /\ history_ind'.tag = "Line"
            /\ history_ind'.i <= Len(history) - 1
            /\ (history_ind = Oldest => history_ind' = Oldest)]_vars

\* an Up press has brought the index to the oldest of two entries
C1_Witness ==
    /\ pc = "running" /\ draft.on
    /\ Len(history) = 2 /\ history_ind = Line(1)
    /\ cb.text = history[2]

\* C2: Down pressed while the history index is Prompt changes neither the
\* index, nor the saved draft, nor the buffer text.
C2_DownAtPromptNoOp ==
    [][(KeyDown /\ IsBrowse(Plain("Down")) /\ history_ind = Prompt) =>
            /\ history_ind' = history_ind
            /\ saved_line' = saved_line
            /\ cb'.text = cb.text]_vars

\* C3: from Prompt with buffer text T, after Up presses and then Down presses
\* back to Prompt with no other event in between, the buffer text is T.
C3_RoundTrip ==
    (pc = "running" /\ draft.on /\ history_ind = Prompt) => cb.text = draft.text

\* browsing a history that has entries has come back to Prompt with a draft
C3_Witness ==
    /\ pc = "running" /\ draft.on /\ history_ind = Prompt
    /\ Len(history) >= 1 /\ draft.text # <<>> /\ cb.text = draft.text

\* C4: a history index Line(i) has 0 <= i < the history's length (so with an
\* empty history the index is Prompt), and the lookup of update_history never
\* fails.
C4_IndexInRange ==
    /\ history_ind.tag = "Line" =>
            (0 <= history_ind.i /\ history_ind.i < Len(history))
    /\ pc # "panicked"

\* the index is at the second of two entries, which the buffer shows
C4_Witness ==
    /\ pc = "running" /\ history_ind = Line(1) /\ Len(history) = 2
    /\ lines = <<>> /\ saved_line # <<>>

KeyEnterNeeds == Step(Plain("Enter"), Inputs(TRUE, NoSuggestion, <<>>))
KeyCtrlJNeeds == Step(Ctrl("j"), Inputs(TRUE, NoSuggestion, <<>>))

\* C5: with the menu inactive and the interpreter asking for another line, an
\* Enter or Ctrl-J event ends with the accumulator being the old accumulator,
\* the old buffer text and a newline, the buffer empty, the mode unchanged and
\* the loop still running.
C5_Continuation ==
    [][((KeyEnterNeeds \/ KeyCtrlJNeeds) /\ ~menu.active) =>
            /\ lines' = lines \o cb.text \o <<NL>>
            /\ cb'.text = <<>>
            /\ mode' = mode
            /\ pc' = "running"]_vars

\* C6: on every exit of the session (return, error, process exit on Ctrl-D)
\* raw mode and bracketed paste are both released.
C6_TerminalReleased == Stopped => (~raw_mode /\ ~bracketed_paste)

\* C7: whenever the loop is left, the returned text is the accumulator followed
\* by the buffer text, and it is added to the history once if it is not empty
\* and not at all if it is; no other step changes the history.
C7_ResultAndHistory ==
    [][IF pc' = "returned" /\ pc # "returned"
       THEN /\ result' = lines' \o cb'.text
            /\ history' = IF result' # <<>> THEN <<result'>> \o history ELSE history
       ELSE history' = history]_vars

\* the loop was left with a continuation line and a buffer text, now in the history
C7_Witness ==
    /\ pc = "returned" /\ lines # <<>> /\ cb.text # <<>>
    /\ result = lines \o cb.text /\ history[1] = result

\* C8: Ctrl-C, in either mode and whatever the menu, clears the buffer, the
\* undo/redo log and the accumulator and ends the loop with neither the menu
\* nor the mode handler run; the session returns the empty text and the history
\* is left alone.
C8_CtrlC ==
    [][KeyCtrlC =>
            /\ pc' = "returned"
            /\ cb' = EmptyBuffer /\ lines' = <<>>
            /\ buffer_history' = EmptyBufferHistory
            /\ result' = <<>> /\ history' = history
            /\ menu' = menu /\ normal_keys' = normal_keys
            /\ ran' = <<"keybinding", "standard">>]_vars

\* Ctrl-C has ended a session whose menu was active
C8_Witness ==
    /\ pc = "returned" /\ ending = Ctrl("c") /\ menu.active
    /\ ran = <<"keybinding", "standard">> /\ result = <<>>

ModeHandlers == {"insert", "normal"}
\* the handler chains of one iteration, in dispatch order
Chains ==
    LET heads == {<<>>, <<"keybinding">>}
        tails == {<<>>, <<"standard">>, <<"standard", "menu">>,
                  <<"standard", "insert">>, <<"standard", "normal">>,
                  <<"standard", "menu", "insert">>, <<"standard", "menu", "normal">>}
    IN  {h \o tl : h \in heads, tl \in tails}

\* C9: an event goes to the global key-binding table, then to the universal
\* keys, then to the menu handler if the menu is active and else to the handler
\* of the mode; a key the table handles ends the loop with no other handler run;
\* a universal key that ends the loop keeps the menu and mode handlers from
\* running; with the menu active the mode handler runs only after the menu
\* handler.
C9_DispatchOrder ==
    [][pc = "running" =>
            /\ ran' \in Chains
            /\ KeyBound => (pc' = "returned" /\ ran' = <<"keybinding">>)
            /\ (ran' # <<>> /\ ran'[Len(ran')] = "keybinding") => pc' = "returned"
            /\ pc' \in {"returned", "exited"} =>
                    ran' \in {<<"keybinding">>, <<"keybinding", "standard">>}
            /\ \A k \in 1..Len(ran') :
                    /\ ran'[k] = "menu" => menu.active
                    /\ ran'[k] = "insert" => mode = Insert
                    /\ ran'[k] = "normal" => mode = Normal
                    /\ (ran'[k] \in ModeHandlers /\ menu.active) => ran'[k - 1] = "menu"
            /\ (pc' = "running" /\ ran' # <<>>) =>
                    ran'[Len(ran')] \in ModeHandlers \cup {"menu"}]_vars

\* with the menu open on two completions a typed character went through all
\* four handlers and is in the buffer
C9_Witness ==
    /\ pc = "running" /\ ran = <<"keybinding", "standard", "menu", "insert">>
    /\ ~menu.active /\ Len(menu.items) = 2
    /\ cb.text = <<"i">> /\ lines = <<>> /\ history = <<>>

\* C10: with the menu active, Enter or Ctrl-J is absorbed by the menu: the loop
\* goes on, the accumulator and the undo/redo log are unchanged, and the buffer
\* changes only by the accepted selection.
C10_MenuEnter ==
    [][((KeyEnter \/ KeyCtrlJ) /\ menu.active) =>
            /\ pc' = "running"
            /\ lines' = lines
            /\ buffer_history' = buffer_history
            /\ cb' = accept_completion(Cur, current_selection(Cur)).cb]_vars

\* the events the menu handler has no arm of its own for
MenuOtherEvents ==
    {Resize, Paste(<<"i">>), Ctrl("j"), Ctrl("d"), Plain("Right"), Plain("Left"),
     Plain("Backspace"), Ctrl("h"), Ctrl("w"), Ctrl("a"), Ctrl("e")}
    \cup {KeyChar(c) : c \in OnceChars}

\* C11: with the menu active, an event that is none of Enter, Escape,
\* Shift-Tab/Up, Tab/Down and does not end the loop leaves the menu inactive and
\* leaves buffer, cursor, mode, pending keys and history index as the same event
\* would have left them from the same state with the menu inactive.
C11_MenuOtherKey ==
    [][menu.active =>
        \A ev \in MenuOtherEvents, needs \in BOOLEAN, sug \in Suggestions :
            LET inp == Inputs(needs, sug, <<>>)
                inactive == Iteration(menu_disactivate(Cur), ev, inp)
            IN  (Once(ev, inp) /\ pc' = "running" /\ inactive.ctl = "go") =>
                    /\ ~menu'.active
                    /\ cb' = inactive.cb
                    /\ mode' = inactive.mode
                    /\ normal_keys' = inactive.normal_keys
                    /\ history_ind' = inactive.history_ind]_vars

\* the text of the buffer before its cursor ends with str
EndsBeforeCursor(buffer, str) ==
    /\ buffer.cursor >= Len(str)
    /\ SubSeq(buffer.text, buffer.cursor - Len(str) + 1, buffer.cursor) = str

\* C12: in Insert mode with the menu inactive, a Tab to which the completer
\* answers exactly one candidate puts that candidate into the buffer in the
\* same event and leaves the menu inactive, the loop going on.
C12_TabSingle ==
    [][\A comps \in {l \in OnceCompletionLists : Len(l) = 1} :
         (Once(Plain("Tab"), Inputs(FALSE, NoSuggestion, comps))
            /\ mode = Insert /\ ~menu.active) =>
                /\ pc' = "running"
                /\ ~menu'.active
                /\ EndsBeforeCursor(cb', comps[1].completion)]_vars

TabNone == Once(Plain("Tab"), Inputs(FALSE, NoSuggestion, <<>>))

WordBeforeCursor == LastWord(SubSeq(cb.text, 1, cb.cursor))
\* the buffer with the word before the cursor replaced by str, the cursor after str
Replaced(str) ==
    LET before == SubSeq(cb.text, 1, cb.cursor - Len(WordBeforeCursor))
    IN  [text |-> before \o str \o SubSeq(cb.text, cb.cursor + 1, Len(cb.text)),
         cursor |-> Len(before) + Len(str)]
\* what accepting completion c is to give
Accepts(c) ==
    /\ pc' = "running"
    /\ IF c.replace_method = Replace
       THEN cb' = Replaced(c.completion) /\ current_word' = <<>>
       ELSE cb' = [text |-> InsertAt(cb.text, cb.cursor, c.completion),
                   cursor |-> cb.cursor + Len(c.completion)]

\* C14: accepting a Replace completion c, the cached current word w being the
\* text before the cursor, gives the text before w, then c, then the text after
\* the cursor, with the cursor after c and the cache empty, whatever the byte
\* length and the width of w; accepting an Append completion inserts c at the
\* cursor and deletes nothing.  (Accepted by Enter in the menu, or by a Tab with
\* one candidate.)
C14_Accept ==
    [][mode = Insert =>
        /\ (Once(Plain("Enter"), NoInputs) /\ menu.active) => Accepts(current_selection(Cur))
        /\ \A comps \in {l \in OnceCompletionLists : Len(l) = 1} :
             (Once(Plain("Tab"), Inputs(FALSE, NoSuggestion, comps)) /\ ~menu.active) =>
                    Accepts(comps[1])]_vars

\* the character offset at which word i of words starts
RECURSIVE CharStart(_, _)
CharStart(words, i) == IF i = 1 THEN 0 ELSE CharStart(words, i - 1) + Len(words[i - 1]) + 1
\* the space-delimited token of the buffer that holds the cursor, ends included
TokenAtCursor ==
    LET words == Split(cb.text)
    IN  CHOOSE i \in 1..Len(words) :
            cb.cursor >= CharStart(words, i) /\ cb.cursor <= CharStart(words, i) + Len(words[i])
\* the registered snippets that may expand the token at the cursor
Expandable ==
    { sn \in snippets : /\ sn.trigger = Split(cb.text)[TokenAtCursor]
                        /\ sn.position = Command => TokenAtCursor = 1 }

\* C16: when the trigger matches and the token holding the cursor is a
\* registered trigger whose position constraint holds, the buffer becomes the
\* tokens with that one replaced by the expansion, joined by single spaces,
\* the cursor at the end, the key not inserted; in every other case expand
\* leaves buffer and cursor alone and the key is handled as usual (inserted).
C16_Expand ==
    [][\A c \in {" ", "i", "j"} :
         Once(KeyChar(c), NoInputs) =>
            IF c = " " /\ Expandable # {}
            THEN \E sn \in Expandable :
                    LET joined == Join([Split(cb.text) EXCEPT ![TokenAtCursor] = sn.value])
                    IN  cb' = [text |-> joined, cursor |-> Len(joined)]
            ELSE cb' = [text |-> InsertAt(cb.text, cb.cursor, <<c>>),
                        cursor |-> cb.cursor + 1]]_vars

\* expand offered the trigger key once more, right after the step
Retriggered == expand([Cur EXCEPT !.cb = cb'], KeyChar(" "))
\* the step was the trigger key and it expanded a snippet
Expanded == Once(KeyChar(" "), NoInputs) /\ ~expand(Cur, KeyChar(" ")).continue
\* some token of the buffer after the step is a trigger that may expand where it stands
TriggerLeft ==
    LET words == Split(cb'.text)
    IN  \E i \in 1..Len(words), sn \in snippets :
            sn.trigger = words[i] /\ (sn.position = Command => i = 1)

\* C15 as stated: after an expansion, triggering again on the resulting buffer
\* expands nothing and leaves the buffer as it is, whatever the table and buffer.
C15_IdempotentAlways ==
    [][Expanded => (Retriggered.continue /\ Retriggered.s.cb = cb')]_vars

\* C15 amended: after an expansion that leaves no token that is a trigger
\* allowed at its position, triggering again on the resulting buffer expands
\* nothing and leaves the buffer as it is.
C15_Idempotent ==
    [][(Expanded /\ ~TriggerLeft) => (Retriggered.continue /\ Retriggered.s.cb = cb')]_vars
\* "i j" with the cursor in "i" was expanded to "ii j": "j" is left, not at the head
C15_Witness ==
    /\ pc = "running" /\ ending = KeyChar(" ") /\ snippets = SnippetTable
    /\ cb = [text |-> <<"i", "i", " ", "j">>, cursor |-> 4]

\* C17: in Normal mode, whenever the pending keys with the typed key parse
\* as a command, the pending keys are empty once the event has been handled,
\* whatever the action and its outcome (the editor action without EDITOR too).
C17_PendingCleared ==
    [][\A c \in OnceChars, editor \in Editors :
         (/\ mode = Normal
          /\ Parse(Append(normal_keys, c)).ok
          /\ Once(KeyChar(c), InputsEditor(editor))) => normal_keys' = <<>>]_vars

\* "2" is pending in Normal mode and "j" is typed
TwoThenJ == mode = Normal /\ normal_keys = <<"2">> /\ Once(KeyChar("j"), NoInputs)

\* C18 as stated: "2" then "j" parses as repeat 2 of Move(Down) and the
\* History Navigator's up operation is invoked exactly twice.
C18_DownCallsUp ==
    [][TwoThenJ =>
        /\ Parse(<<"2", "j">>) = [ok |-> TRUE, repeat |-> 2, action |-> ActMove("Down")]
        /\ calls' = <<"history_up", "history_up">>]_vars

\* C18 amended: "2" then "j" parses as repeat 2 of Move(Down) and the
\* History Navigator's down operation is invoked exactly twice.
C18_DownCallsDown ==
    [][TwoThenJ =>
        /\ Parse(<<"2", "j">>) = [ok |-> TRUE, repeat |-> 2, action |-> ActMove("Down")]
        /\ calls' = <<"history_down", "history_down">>]_vars
\* the two calls took the index from the second entry back to the prompt
C18_Witness ==
    /\ pc = "running" /\ mode = Normal /\ ending = KeyChar("j")
    /\ calls = <<"history_down", "history_down">>
    /\ normal_keys = <<>> /\ history_ind = Prompt /\ Len(history) >= 2

\* C19: Ctrl-D with a non-empty buffer ends the loop with the buffer kept, the
\* result being the continuation lines and the buffer, in either mode and
\* with the menu active or not; with an empty buffer it ends the process and
\* no result is returned, also when continuation lines are held.
C19_CtrlD ==
    [][Once(Ctrl("d"), NoInputs) =>
        IF cb.text # <<>>
        THEN pc' = "returned" /\ cb' = cb /\ lines' = lines /\ result' = lines \o cb.text
        ELSE pc' = "exited" /\ result' = <<>>]_vars
\* the process was ended while continuation lines were held
C19_Witness ==
    pc = "exited" /\ ending = Ctrl("d") /\ lines # <<>> /\ cb.text = <<>> /\ result = <<>>

\* C20: queued content with auto-run ends the session after one render with
\* no event read, the undo/redo log cleared and the queued content returned
\* (and added to the history if not empty); queued content without auto-run is
\* inserted into the buffer and the loop goes on to read events.
C20_Queued ==
    [][\A q \in QueueOptions :
         (q.some /\ read_line(q, TRUE)) =>
            IF q.auto_run
            THEN /\ pc' = "returned" /\ ran' = <<"render">> /\ ending' = NoEvent
                 /\ buffer_history' = EmptyBufferHistory
                 /\ result' = q.content
                 /\ history' = IF q.content # <<>> THEN history_add(history, q.content)
                               ELSE history
            ELSE /\ pc' = "running" /\ ran' = <<"render">>
                 /\ cb' = [text |-> q.content, cursor |-> Len(q.content)]
                 /\ lines' = <<>>]_vars
\* the queued "i" was run at once in a second session; the pending keys of the
\* first are still there
C20_Witness ==
    /\ pc = "returned" /\ sessions = 1 /\ ending = NoEvent /\ ran = <<"render">>
    /\ result = <<"i">> /\ Len(history) = 3 /\ history[1] = <<"i">>
    /\ buffer_history = EmptyBufferHistory /\ normal_keys = <<"2">>

\* the single candidate of a Tab whose acceptance asks the buffer for a
\* location outside the text
TabFails(comps) ==
    /\ mode = Insert /\ ~menu.active
    /\ Len(comps) = 1 /\ comps[1].replace_method = Replace
    /\ ByteLen(LastWord(SubSeq(cb.text, 1, cb.cursor))) > cb.cursor

\* C21: a buffer operation that fails in a handler, the vi action of Normal
\* mode included, ends the session: nothing more of the handler runs for the
\* event and the loop reads no further event.
C21_FailureEndsSession ==
    [][/\ \A c \in OnceChars :
            (/\ mode = Normal /\ Parse(Append(normal_keys, c)).ok
             /\ Once(KeyChar(c), [NoInputs EXCEPT !.vi_err = TRUE]))
                => (pc' = "failed" /\ buffer_history' = buffer_history
                    /\ normal_keys' = Append(normal_keys, c))
       /\ \A comps \in OnceCompletionLists :
            (TabFails(comps) /\ Once(Plain("Tab"), Inputs(FALSE, NoSuggestion, comps)))
                => (pc' = "failed" /\ cb' = cb /\ menu'.active)]_vars

\* the text without the newline it ends with, if it ends with one
StripOne(text) ==
    IF text # <<>> /\ text[Len(text)] = NL THEN SubSeq(text, 1, Len(text) - 1) ELSE text

\* C22: after the external-editor action the buffer holds what the editor
\* wrote with exactly one trailing newline removed if there is one (of two or
\* more trailing newlines all but the last are kept), the cursor at the end.
C22_EditorContents ==
    [][\A editor \in Editors :
         (/\ mode = Normal /\ normal_keys = <<>> /\ editor.set
          /\ Once(KeyChar("v"), InputsEditor(editor)))
            => cb' = [text |-> StripOne(editor.text), cursor |-> Len(StripOne(editor.text))]]_vars

\* n calls of one function
Times(n, function) == [k \in 1..n |-> function]

\* C23: in Normal mode a parsed command with count n runs its action n
\* times, and each run dispatches on the action: Move(Up) to one history_up,
\* Move(Down) to one history_down, Undo and Redo to one prev and one next of
\* the undo/redo log; a Move to the left runs on the buffer n times.
C23_Repeat ==
    [][\A c \in OnceChars :
         LET cmd == Parse(Append(normal_keys, c))
         IN  (mode = Normal /\ cmd.ok /\ Once(KeyChar(c), NoInputs)) =>
                /\ cmd.action = ActMove("Up") => calls' = Times(cmd.repeat, "history_up")
                /\ cmd.action = ActMove("Down") => calls' = Times(cmd.repeat, "history_down")
                /\ cmd.action = ActUndo => calls' = Times(cmd.repeat, "prev")
                /\ cmd.action = ActRedo => calls' = Times(cmd.repeat, "next")
                /\ cmd.action = ActMove("Left") =>
                        /\ calls' = <<>>
                        /\ cb'.cursor = IF cb.cursor >= cmd.repeat
                                        THEN cb.cursor - cmd.repeat ELSE 0]_vars
\* "2" then "k" went two entries up the history
C23_Witness ==
    /\ pc = "running" /\ mode = Normal /\ ending = KeyChar("k")
    /\ calls = <<"history_up", "history_up">> /\ history_ind = Line(1)

\* the undo/redo log holds n more snapshots, the last one the buffer as it is
\* after the event, and points at it
Snapshots(n) ==
    /\ Len(buffer_history'.hist) = buffer_history.index + n
    /\ buffer_history'.index = Len(buffer_history'.hist)
    /\ buffer_history'.hist[buffer_history'.index] = cb'
    /\ SubSeq(buffer_history'.hist, 1, buffer_history.index)
            = SubSeq(buffer_history.hist, 1, buffer_history.index)

\* C24 as stated: each run of a parsed action other than Undo, Redo, a Move
\* up or down and the editor action (a Move to the left or right, a delete, an
\* entry into Insert mode) adds one snapshot of the buffer after the action;
\* Undo, Redo, Move up or down and the editor action add none.
C24_SnapshotButUpDown ==
    [][\A c \in OnceChars :
         LET cmd == Parse(Append(normal_keys, c))
         IN  (pc = "drawn" /\ mode = Normal /\ cmd.ok /\ ending' = KeyChar(c)) =>
                IF \/ cmd.action \in {ActUndo, ActRedo, ActEditor}
                   \/ cmd.action \in {ActMove("Up"), ActMove("Down")}
                THEN buffer_history'.hist = buffer_history.hist
                ELSE Snapshots(cmd.repeat)]_vars

\* C24 amended: each run of a parsed action other than Undo, Redo, a Move of
\* any motion and the editor action adds one snapshot of the buffer after the
\* action; Undo, Redo, every Move and the editor action add none.
C24_SnapshotButMove ==
    [][\A c \in OnceChars :
         LET cmd == Parse(Append(normal_keys, c))
         IN  (pc = "drawn" /\ mode = Normal /\ cmd.ok /\ ending' = KeyChar(c)) =>
                IF cmd.action.kind \in {"Undo", "Redo", "Editor", "Move"}
                THEN buffer_history'.hist = buffer_history.hist
                ELSE Snapshots(cmd.repeat)]_vars
\* "2" then "x" deleted two characters and left two snapshots after the first one
C24_Witness ==
    /\ pc = "running" /\ mode = Normal /\ ending = KeyChar("x")
    /\ cb = [text |-> <<"i">>, cursor |-> 0]
    /\ buffer_history = [hist |-> <<[text |-> <<"j", "i", "i">>, cursor |-> 0],
                                    [text |-> <<"i", "i">>, cursor |-> 0],
                                    [text |-> <<"i">>, cursor |-> 0]>>,
                         index |-> 3]

\* the event is an Escape that reaches the Insert-mode handler: the menu is
\* inactive, or its own Esc arm (unmodified Esc) does not match
EscInInsert == mode = Insert /\ ending'.code = "Esc" /\ (~menu.active \/ ending' # Plain("Esc"))
\* the event is a character that completes a command whose vi action reports
\* another mode than the current one
ViSwitches ==
    /\ mode = Normal /\ ending'.code = "Char"
    /\ LET cmd == Parse(Append(normal_keys, ending'.ch))
       IN  cmd.ok /\ execute_vi(Cur, cmd.action).mode = mode' /\ mode' # mode

\* C25: within a session the mode changes only by an Escape handled by the
\* Insert-mode handler (to Normal, with a snapshot of the buffer added) and by
\* a Normal-mode vi action that reports another mode; every other event
\* leaves the mode as it is.
C25_ModeChanges ==
    [][(pc = "drawn" /\ pc' = "running" /\ mode' # mode) =>
            \/ EscInInsert /\ mode' = Normal /\ cb' = cb /\ Snapshots(1)
            \/ ViSwitches]_vars
\* Escape in Insert mode led to Normal mode and left a snapshot of the buffer
C25_Witness ==
    /\ pc = "running" /\ mode = Normal /\ ending = Plain("Esc")
    /\ cb = [text |-> <<"i", "j">>, cursor |-> 2]
    /\ buffer_history = [hist |-> <<cb>>, index |-> 1] /\ ~menu.active

\* the mode-switch notifications among the calls of the event
Notifications(log) ==
    SelectSeq(log, LAMBDA f : f \in {ModeSwitchHook(m, field) : m, field \in {Insert, Normal}})

\* C26: a change of the mode field by to_normal_mode or to_insert_mode is
\* followed in the same event by exactly one mode-switch notification, which
\* carries the new mode and is run once the field is set; a vi action that
\* reports the mode already active runs none.
C26_Notified ==
    [][(pc = "drawn" /\ pc' = "running") =>
            Notifications(calls') = IF mode' # mode THEN <<ModeSwitchHook(mode', mode')>>
                                    ELSE <<>>]_vars
\* "2" then "i": the first pass switched to Insert mode and notified, the
\* second found the mode already active; each pass left a snapshot
C26_Witness ==
    /\ pc = "running" /\ mode = Insert /\ ending = KeyChar("i")
    /\ calls = <<ModeSwitchHook(Insert, Insert)>>
    /\ Len(buffer_history.hist) = 3 /\ normal_keys = <<>>

\* C27: in Insert mode only plain characters are inserted: a character with
\* Ctrl or Alt that no binding names leaves the buffer text and cursor as they
\* are, and so does Ctrl-J once it has committed a continuation line (the
\* buffer stays empty).
C27_OnlyPlainInserted ==
    [][(pc = "drawn" /\ pc' = "running" /\ mode = Insert) =>
            /\ ending' \in {Alt("i"), Ctrl("b")} => cb' = cb
            /\ (ending' = Ctrl("j") /\ lines' # lines) => cb' = EmptyBuffer]_vars

\* C28: the history index is Prompt when a session starts, and a character
\* typed (or another edit of the buffer) while the index is Line(i) ends the
\* browsing: the index is Prompt again, so that a later Down has nothing to
\* put in place of the edited text.
C28_EditEndsBrowsing ==
    [][/\ StartSession => history_ind' = Prompt
       /\ (/\ pc = "running" /\ mode = Insert /\ ~menu.active /\ history_ind # Prompt
           /\ KeyChar_ \/ KeyBackspace
           /\ cb'.text # cb.text) => history_ind' = Prompt]_vars

\* C29: whenever the loop waits for the next event with the menu active, the
\* menu holds at least two candidates.
C29_MenuHoldsTwo == (pc = "running" /\ menu.active) => Len(menu.items) >= 2
\* Tab opened the menu on two candidates and a second Tab moved to the second
C29_Witness ==
    /\ pc = "running" /\ menu.active /\ Len(menu.items) = 2 /\ menu.cursor = 1
    /\ mode = Insert /\ cb.text = <<>>

\* C30: whenever a session has ended, by Ctrl-C, by Ctrl-D on a non-empty
\* buffer, by a key of the key-binding table or otherwise, the menu is
\* inactive, and so it is when the next read_line starts.
C30_MenuClosedAtEnd == pc = "returned" => ~menu.active

\* C31: the pending keys of Normal mode are empty whenever the loop waits for
\* an event in Insert mode, and so at the first read() of every session:
\* keys left unparsed by one session are not there in the next
C31_PendingKeysEmpty == (pc = "running" /\ mode = Insert) => normal_keys = <<>>

\* C32: whenever the loop waits for an event, the mode the hooks were last
\* told of and the cursor style registered in the Context are those of the
\* mode field, in a first session and in one that starts in Insert mode after
\* the session before it ended in Normal mode
C32_NotifiedIsMode ==
    pc = "running" =>
        /\ notified # "None" => notified = mode
        /\ cursor_style = "BlinkingBlock" => mode = Normal
        /\ cursor_style = "BlinkingBar" => mode = Insert
====
